---- MODULE Spec2Model ----
(***************************************************************************)
(* One invocation of a serverless endpoint of the AI financial dashboard:  *)
(* the scheduled push (runScheduledPush.ts), the dashboard aggregator      *)
(* (getDashboardData.ts and its earlier versions kept in sendToDiscord.ts),*)
(* the single-feed news endpoint (getNews.ts) and the manual webhook send  *)
(* (sendToDiscord.ts).  The environment answers every outbound request     *)
(* (feed relay, language model, webhook) in any order and with any         *)
(* outcome; the continuation that JavaScript runs on that answer, up to    *)
(* the next await, is part of the same step.  Spec follows one invocation  *)
(* and the page that called it; PageSpec follows the dashboard page        *)
(* (index.tsx, or its earlier version) through several runs and pushes.    *)
(***************************************************************************)
EXTENDS Integers, Sequences, FiniteSets, TLC

VARIABLES
    h,      \* which handler this invocation runs
    env,    \* process.env as the handler reads it
    req,    \* the inbound request as the handler reads it
    pc,     \* where the handler is: recv, wave1, wave2, sending, done
    br,     \* per asynchronous branch: its state, its value, why it degraded
    calls,  \* outbound requests this invocation has issued so far, per kind
    sent,   \* the payloads POSTed to the webhook, by this invocation or for the page
    res,    \* the HTTP response written (status 0: none yet) and how many were
    hook,   \* what the webhook answered to the POST ("none": nothing yet)
    ui      \* the dashboard page that called the aggregator: its React state

vars == <<h, env, req, pc, br, calls, sent, res, hook, ui>>

-----------------------------------------------------------------------------
(* Bounds of the model *)

\* longest article list the model returns for one feed
MaxArticles == 1
\* most items the feed relay returns
MaxItems == 1
\* most manual pushes the user starts on one page
MaxPushes == 1
\* most runs (the mount's and the refreshes') of the page on its own
MaxRuns == 2
\* most manual pushes of the page on its own
MaxPagePushes == 2

-----------------------------------------------------------------------------
(* JavaScript values *)

Undefined == "undefined"

\* !x for the values configuration and request fields take
Falsy(x) == x = Undefined \/ x = ""

NoVal == [t |-> "none"]
JNull == [t |-> "null"]
JMissing == [t |-> "missing"]
JStr == [t |-> "str"]
Arr(s) == [t |-> "arr", items |-> s]

\* x || fallback on a JSON value: null and undefined are falsy, arrays and objects are not
OrElse(x, fallback) == IF x.t \in {"missing", "null"} THEN fallback ELSE x

\* every sequence over S of length at most n
SeqsUpTo(S, n) == UNION {[1..k -> S] : k \in 0..n}

Min(a, b) == IF a <= b THEN a ELSE b

-----------------------------------------------------------------------------
(* Handlers *)

PushHandlers == {"push1", "push2"}
DashHandlers == {"dash", "dashA", "dashC"}
Handlers == PushHandlers \cup DashHandlers \cup {"news", "send"}

\* the order in which the handler awaits its branches
Shape(hh) ==
    CASE hh \in {"push1", "dashA", "dashC"} -> "split"
      [] hh \in {"push2", "dash"} -> "combined"
      [] hh = "news" -> "news"
      [] OTHER -> "send"

\* a handler that starts the summaries together with the feed fetches
Wave1Eager(hh) ==
    CASE Shape(hh) = "split" -> {"feedF", "feedC", "cal", "trk", "newsF", "newsC"}
      [] Shape(hh) = "combined" -> {"feedF", "feedC", "nc"}
      [] Shape(hh) = "news" -> {"feedF", "newsF"}
      [] OTHER -> {}

Wave1(hh) ==
    CASE Shape(hh) = "split" -> {"feedF", "feedC", "cal", "trk"}
      [] Shape(hh) = "combined" -> {"feedF", "feedC"}
      [] Shape(hh) = "news" -> {"feedF"}
      [] OTHER -> {}

Wave2(hh) ==
    CASE Shape(hh) = "split" -> {"newsF", "newsC"}
      [] Shape(hh) = "combined" -> {"nc", "trk", "eth", "btc"}
      [] Shape(hh) = "news" -> {"newsF"}
      [] OTHER -> {}

Branches == {"feedF", "feedC", "cal", "trk", "newsF", "newsC", "nc", "eth", "btc"}
FeedBranches == {"feedF", "feedC"}
ModelBranches == Branches \ FeedBranches

Idle == [st |-> "idle", val |-> NoVal, cause |-> "none"]
Pending == [st |-> "pending", val |-> NoVal, cause |-> "none"]
Ok(v, c) == [st |-> "ok", val |-> v, cause |-> c]
Threw(c) == [st |-> "threw", val |-> NoVal, cause |-> c]

-----------------------------------------------------------------------------
(* The request gate of each handler *)

Pass == [t |-> "pass"]
Respond(s, k) == [t |-> "respond", status |-> s, kind |-> k]

\* a gate that only rejects a request without the header
SecretMismatchHeaderOnly(r, e) == r.secret = Undefined

SecretMismatch(r, e) == r.secret # e.CRON_SECRET

\* a gate that forgets the webhook URL
ConfigMissingKeyOnly(hh, e) == Falsy(e.API_KEY)

ConfigMissing(hh, e) ==
    CASE hh \in PushHandlers -> Falsy(e.API_KEY) \/ Falsy(e.DISCORD_WEBHOOK_URL)
      [] hh = "send" -> Falsy(e.DISCORD_WEBHOOK_URL)
      [] OTHER -> Falsy(e.API_KEY)

BadFeedUrl(r) == Falsy(r.feedUrl)

BadMessage(r) == r.body.t = "obj" /\ (Falsy(r.body.message) \/ r.body.message = "nonstring")

Gate(hh, r, e) ==
    CASE hh \in PushHandlers ->
            IF SecretMismatch(r, e) THEN Respond(401, "unauthorized")
            ELSE IF ConfigMissing(hh, e) THEN Respond(500, "config")
            ELSE Pass
      [] hh \in DashHandlers ->
            IF r.method = "OPTIONS" THEN Respond(200, "preflight")
            ELSE IF ConfigMissing(hh, e) THEN Respond(500, "config")
            ELSE Pass
      [] hh = "news" ->
            IF r.method = "OPTIONS" THEN Respond(200, "preflight")
            ELSE IF BadFeedUrl(r) THEN Respond(400, "badrequest")
            ELSE IF ConfigMissing(hh, e) THEN Respond(500, "config")
            ELSE Pass
      [] OTHER ->
            IF r.method = "OPTIONS" THEN Respond(200, "preflight")
            ELSE IF r.method # "POST" THEN Respond(405, "method")
            ELSE IF ConfigMissing(hh, e) THEN Respond(500, "config")
            ELSE IF r.body.t = "none" THEN Respond(500, "error")
            ELSE IF BadMessage(r) THEN Respond(400, "badrequest")
            ELSE Pass

-----------------------------------------------------------------------------
(* What the environment can answer *)

Items == {"i1"}
Articles == {"a1"}

Event(d, tm, imp) == [date |-> d, time |-> tm, importance |-> imp]
Late == Event(2, "", "High")
Early == Event(1, "09:00", "High")
Medium == Event(1, "14:30", "Medium")
Unparseable == Event(1, "bad", "High")

\* the event lists the model returns: none, two High events out of order (one
\* without a time), a Medium event, an event whose time does not parse
EventLists == {<<>>, <<Late, Early>>, <<Early, Medium>>, <<Late, Unparseable>>}

Post(c, u) == [t |-> "post", postContent |-> c, url |-> u]
EmptyPost == Post("", "")

\* the relay's answer to a feed request
FeedOutcomes ==
    {[t |-> "http_error"], [t |-> "bad_body"]}
    \cup {[t |-> "json", status |-> s, items |-> it] :
            s \in {"ok", "error"},
            it \in {JMissing} \cup {Arr(x) : x \in SeqsUpTo(Items, MaxItems)}}

\* generateContent rejects: with an Error (its message may be empty) or another value
Throws ==
    {[t |-> "throw", isError |-> TRUE, message |-> "msg"],
     [t |-> "throw", isError |-> TRUE, message |-> ""],
     [t |-> "throw", isError |-> FALSE, message |-> Undefined]}

Text(k, f, j) == [t |-> "text", k |-> k, fenced |-> f, json |-> j]

\* generateContent resolves: response.text is undefined, empty, not JSON, or JSON
\* (possibly wrapped in code-fence markers)
Texts(J) ==
    {Text("undef", FALSE, NoVal), Text("empty", FALSE, NoVal), Text("garbage", FALSE, NoVal)}
    \cup {Text("json", f, j) : f \in BOOLEAN, j \in J}

TrackerJson ==
    {JNull} \cup
    {[t |-> "obj", schedule |-> sv, topPost |-> pv] :
        sv \in {JMissing, Arr(<<>>), Arr(<<"s1">>)},
        pv \in {JMissing, EmptyPost, Post("p", "u")}}

CryptoJson ==
    {JNull} \cup
    {[t |-> "obj", marketStructure |-> m, bullishScenario |-> b] :
        m \in {Undefined, "ms"}, b \in {Undefined, "bs"}}

NewsJson == {JNull} \cup {Arr(x) : x \in SeqsUpTo(Articles, MaxArticles)}

CalendarJson == {JNull, JStr} \cup {Arr(x) : x \in EventLists}

Combined(fn, cn, c) == [t |-> "obj", financialNews |-> fn, cryptoNews |-> cn, calendar |-> c]

CombinedJson ==
    {JNull, Combined(JMissing, JMissing, JMissing)} \cup
    {Combined(fn, cn, c) :
        fn \in NewsJson \ {JNull}, cn \in NewsJson \ {JNull}, c \in CalendarJson}

JsonOf(b) ==
    CASE b \in {"newsF", "newsC"} -> NewsJson
      [] b = "cal" -> CalendarJson
      [] b = "nc" -> CombinedJson
      [] b = "trk" -> TrackerJson
      [] OTHER -> CryptoJson

ModelOutcomes(b) == Throws \cup Texts(JsonOf(b))

-----------------------------------------------------------------------------
(* Decoding a model answer *)

\* response.text.trim() throws a TypeError when text is undefined
TrimThrows(o) == o.k = "undef"

\* .replace(/```json|```/g, "")
StripFences(o) == [o EXCEPT !.fenced = FALSE]

\* JSON.parse throws on the empty string, on non-JSON text and on fenced text
ParseThrows(o) == o.k # "json" \/ o.fenced

\* why a request yielded no value: it was rejected, or its text did not decode
\* (an empty answer or a parse error)
Why(o) == IF o.t = "throw" THEN "throw" ELSE "decode"

-----------------------------------------------------------------------------
(* SourceFetcher *)

ARTICLE_LIMIT == 15

FormatItem(i) == [title |-> i]

FeedText(items) ==
    [k \in 1..Min(Len(items), ARTICLE_LIMIT) |-> FormatItem(items[k])]

TextVal(s) == [t |-> "text", text |-> s]

\* newsContent.trim() is empty: every formatted item starts with "Title: "
TrimEmpty(v) == Len(v.text) = 0

\* a fetcher that takes a non-success status of the relay for an empty feed
getNewsFromSourceSwallowed(o) ==
    IF o.t = "http_error" THEN Ok(TextVal(<<>>), "http")
    ELSE IF o.t = "bad_body" THEN Threw("body")
    ELSE IF o.status # "ok" \/ o.items.t = "missing" THEN Ok(TextVal(<<>>), "none")
    ELSE Ok(TextVal(FeedText(o.items.items)), "none")

getNewsFromSource(o) ==
    IF o.t = "http_error" THEN Threw("http")
    ELSE IF o.t = "bad_body" THEN Threw("body")
    ELSE IF o.status # "ok" \/ o.items.t = "missing" THEN Ok(TextVal(<<>>), "none")
    ELSE Ok(TextVal(FeedText(o.items.items)), "none")

-----------------------------------------------------------------------------
(* CalendarFetcher *)

NaN == -1

Minutes(tm) ==
    CASE tm = "09:00" -> 540
      [] tm = "14:30" -> 870
      [] OTHER -> 0

\* new Date(`${date}T${time || '00:00'}`).getTime()
EventTime(e) == IF e.time = "bad" THEN NaN ELSE e.date * 1440 + Minutes(e.time)

\* the comparator (a, b) => dateA.getTime() - dateB.getTime(); NaN counts as 0
Compare(a, b) ==
    IF EventTime(a) = NaN \/ EventTime(b) = NaN THEN 0 ELSE EventTime(a) - EventTime(b)

Perms(n) == {p \in [1..n -> 1..n] : \A i, j \in 1..n : i # j => p[i] # p[j]}

\* a comparator that is not a consistent one: x = y and y = z but x # z
Inconsistent(s) ==
    \E i, j, k \in 1..Len(s) :
        Compare(s[i], s[j]) = 0 /\ Compare(s[j], s[k]) = 0 /\ Compare(s[i], s[k]) # 0

\* Array.prototype.sort: stable under a consistent comparator, and some
\* permutation of the input (implementation-defined) under any other
SortResults(s) ==
    LET n == Len(s)
        sorted(p) == \A i, j \in 1..n :
                        i < j => \/ Compare(s[p[i]], s[p[j]]) < 0
                                 \/ Compare(s[p[i]], s[p[j]]) = 0 /\ p[i] < p[j]
    IN  {[i \in 1..n |-> s[p[i]]] :
            p \in {q \in Perms(n) : Inconsistent(s) \/ sorted(q)}}

FilterHigh(s) == SelectSeq(s, LAMBDA e : e.importance = "High")

\* sendToDiscord.ts (first two versions): the parsed JSON as it is
getFinancialCalendarRaw(o) ==
    IF o.t = "throw" \/ TrimThrows(o) \/ ParseThrows(o)
    THEN {Ok(Arr(<<>>), "failed")}
    ELSE {Ok(o.json, "none")}

\* runScheduledPush.ts, sendToDiscord.ts (last version): filter, then sort
getFinancialCalendar(o) ==
    IF o.t = "throw" \/ TrimThrows(o) \/ ParseThrows(o)
    THEN {Ok(Arr(<<>>), "failed")}
    ELSE IF o.json.t = "arr"
    THEN {Ok(Arr(x), "none") : x \in SortResults(FilterHigh(o.json.items))}
    ELSE {Ok(o.json, "none")}

-----------------------------------------------------------------------------
(* Summarizer *)

analyzeNews(o) ==
    IF o.t = "throw" \/ TrimThrows(o) \/ ParseThrows(o)
    THEN {Threw(Why(o))}
    ELSE {Ok(o.json, "none")}

\* the combined news-and-calendar request of getDashboardData.ts and runScheduledPush.ts
getNewsAndCalendarAnalysis(o) ==
    IF o.t = "throw" \/ TrimThrows(o) \/ ParseThrows(o)
    THEN {Threw(Why(o))}
    ELSE IF o.json.t = "null"
    THEN {Threw("shape")}
    ELSE IF o.json.calendar.t = "arr"
    THEN {Ok([o.json EXCEPT !.calendar = Arr(x)], "none") :
            x \in SortResults(o.json.calendar.items)}
    ELSE {Ok(o.json, "none")}

-----------------------------------------------------------------------------
(* FigureTracker *)

Tracker(sv, pv) == [t |-> "tracker", schedule |-> sv, topPost |-> pv]
EmptyTracker == Tracker(Arr(<<>>), EmptyPost)

\* one request for both parts, everything inside one try block
getTrumpTracker(o) ==
    IF o.t = "throw" \/ TrimThrows(o) \/ ParseThrows(StripFences(o))
    THEN Ok(EmptyTracker, "failed")
    ELSE IF o.json.t = "null"
    THEN Ok(EmptyTracker, "failed")
    ELSE Ok(Tracker(OrElse(o.json.schedule, Arr(<<>>)), OrElse(o.json.topPost, EmptyPost)),
            "none")

\* sendToDiscord.ts (first version): two requests, each in its own try block
DefaultSchedule == [t |-> "obj", schedule |-> Arr(<<>>), topPost |-> JMissing]
DefaultPost == [t |-> "obj", schedule |-> JMissing, topPost |-> EmptyPost]

Failed(o) == o.t = "throw" \/ TrimThrows(o) \/ ParseThrows(StripFences(o))

\* the value a try block leaves in its variable
Caught(o, default) == IF Failed(o) THEN default ELSE o.json

\* after the schedule answer the post request is issued
getTrumpTrackerSchedule(o) ==
    [st |-> "pending2",
     val |-> [t |-> "partial", scheduleData |-> Caught(o, DefaultSchedule)],
     cause |-> IF Failed(o) THEN "failed" ELSE "none"]

\* after the post answer: the return statement reads both variables outside any try
getTrumpTrackerPost(cur, o) ==
    LET scheduleData == cur.val.scheduleData
        postData == Caught(o, DefaultPost)
    IN  IF scheduleData.t = "null" \/ postData.t = "null"
        THEN Threw("shape")
        ELSE Ok(Tracker(OrElse(scheduleData.schedule, Arr(<<>>)),
                        OrElse(postData.topPost, EmptyPost)),
                IF cur.cause # "none" \/ Failed(o) THEN "failed" ELSE "none")

-----------------------------------------------------------------------------
(* CryptoAnalyst *)

ErrorVal(m) == [t |-> "error", error |-> TRUE, message |-> m]

\* the exception the catch block receives
CaughtError(o) ==
    IF o.t = "throw" THEN o ELSE [t |-> "throw", isError |-> TRUE, message |-> "msg"]

MissingFields(j) == Falsy(j.marketStructure) \/ Falsy(j.bullishScenario)

CryptoFails(o) ==
    \/ o.t = "throw" \/ TrimThrows(o) \/ ParseThrows(StripFences(o))
    \/ o.json.t = "null"
    \/ MissingFields(o.json)

\* an analyst without its try block
getCryptoTechnicalAnalysisNoCatch(o) ==
    IF CryptoFails(o) THEN Threw("failed") ELSE Ok(o.json, "none")

\* getDashboardData.ts: the message is the exception's own message
getCryptoTechnicalAnalysis(o) ==
    IF CryptoFails(o)
    THEN Ok(ErrorVal(IF CaughtError(o).isError THEN CaughtError(o).message ELSE "fallback"),
            "failed")
    ELSE Ok(o.json, "none")

\* runScheduledPush.ts: a fixed message
getCryptoTechnicalAnalysisForPush(o) ==
    IF CryptoFails(o) THEN Ok(ErrorVal("fixed"), "failed") ELSE Ok(o.json, "none")

-----------------------------------------------------------------------------
(* The continuation each branch runs on its answer *)

\* getNews.ts: the relay's status and the item list are checked by the handler itself
getNewsFeed(r, o) ==
    IF o.t = "http_error" THEN Threw("http")
    ELSE IF o.t = "bad_body" THEN Threw("body")
    ELSE IF r.feedUrl = "reuters"
    THEN IF o.items.t = "missing" THEN Threw("shape")
         ELSE Ok(TextVal(FeedText(o.items.items)), "none")
    ELSE IF o.status # "ok" THEN Threw("status")
    ELSE IF o.items.t = "missing" THEN Ok(TextVal(<<>>), "none")
    ELSE Ok(TextVal(FeedText(o.items.items)), "none")

\* getNews.ts: an empty answer is an empty list, any other failure is thrown
getNewsModel(o) ==
    IF o.t = "throw" \/ TrimThrows(o) THEN Threw(Why(o))
    ELSE IF o.k = "empty" THEN Ok(Arr(<<>>), "empty")
    ELSE IF ParseThrows(o) THEN Threw("parse")
    ELSE Ok(o.json, "none")

FeedResult(hh, r, o) == IF hh = "news" THEN getNewsFeed(r, o) ELSE getNewsFromSource(o)

ModelResult(hh, b, cur, o) ==
    CASE b \in {"newsF", "newsC"} ->
            IF hh = "news" THEN {getNewsModel(o)} ELSE analyzeNews(o)
      [] b = "nc" -> getNewsAndCalendarAnalysis(o)
      [] b = "cal" ->
            IF hh = "dashA" THEN getFinancialCalendarRaw(o) ELSE getFinancialCalendar(o)
      [] b = "trk" ->
            IF hh # "dashA" THEN {getTrumpTracker(o)}
            ELSE IF cur.st = "pending" THEN {getTrumpTrackerSchedule(o)}
            ELSE {getTrumpTrackerPost(cur, o)}
      [] OTHER ->
            IF hh = "push2" THEN {getCryptoTechnicalAnalysisForPush(o)}
            ELSE {getCryptoTechnicalAnalysis(o)}

-----------------------------------------------------------------------------
(* DashboardAggregator *)

Data(fn, cn, c, trk, ca) ==
    [t |-> "data", financialNews |-> fn, cryptoNews |-> cn, calendar |-> c,
     trumpTracker |-> trk, cryptoAnalysis |-> ca]

CryptoPair(e, b) == [t |-> "crypto", eth |-> e, btc |-> b]

Aggregate(hh, b) ==
    IF Shape(hh) = "split"
    THEN Data(b["newsF"].val, b["newsC"].val, b["cal"].val, b["trk"].val, JMissing)
    ELSE Data(b["nc"].val.financialNews, b["nc"].val.cryptoNews, b["nc"].val.calendar,
              b["trk"].val, CryptoPair(b["eth"].val, b["btc"].val))

-----------------------------------------------------------------------------
(* DigestFormatter *)

\* x?.length > 0
NonEmpty(v) == (v.t = "arr" /\ Len(v.items) > 0) \/ v.t = "str"

\* calendar.slice(0, 10).map(...) on a string: slice yields a string, which has no map
FormatThrows(d) == d.calendar.t = "str"

\* a formatter that pushes three embeds per data group
SectionTripled(cond, name) == IF cond THEN <<name, name, name>> ELSE <<>>

Section(cond, name) == IF cond THEN <<name>> ELSE <<>>

TrackerFields(trk) ==
    Section(NonEmpty(trk.schedule), "schedule")
    \o Section(~Falsy(trk.topPost.postContent), "truthSocial")

\* a createCryptoEmbed that does not look at the error flag
CryptoSectionAlways(a, name) == <<name>>

\* createCryptoEmbed: nothing for an error-flagged analysis or one without fields
CryptoSection(a, name) ==
    Section(a.t = "obj" /\ (~Falsy(a.marketStructure) \/ ~Falsy(a.bullishScenario)), name)

EMBED_LIMIT == 10

\* one embed: the data group it shows, the fields of the tracker embed, the footer
Embed(name, d) ==
    [section |-> name,
     fields |-> IF name = "trumpTracker" THEN TrackerFields(d.trumpTracker) ELSE <<>>,
     footer |-> FALSE]

\* embeds[embeds.length-1].footer = ...; embeds[embeds.length-1].timestamp = ...
StampFirst(e) == [i \in 1..Len(e) |-> [e[i] EXCEPT !.footer = (i = 1)]]

Stamp(e) == [i \in 1..Len(e) |-> [e[i] EXCEPT !.footer = (i = Len(e))]]

Embeds(hh, d) ==
    LET all == Section(NonEmpty(d.financialNews), "financialNews")
               \o Section(NonEmpty(d.cryptoNews), "cryptoNews")
               \o Section(NonEmpty(d.calendar), "calendar")
               \o Section(Len(TrackerFields(d.trumpTracker)) > 0, "trumpTracker")
               \o (IF hh = "push2"
                   THEN CryptoSection(d.cryptoAnalysis.btc, "BTC")
                        \o CryptoSection(d.cryptoAnalysis.eth, "ETH")
                   ELSE <<>>)
        embeds == Stamp([i \in 1..Len(all) |-> Embed(all[i], d)])
    IN  SubSeq(embeds, 1, Min(Len(embeds), EMBED_LIMIT))

Payload(content, embeds) == [content |-> content, embeds |-> embeds]

-----------------------------------------------------------------------------
(* The handler *)

\* n: how many times the handler has written a response
NoRes == [status |-> 0, kind |-> "none", from |-> "none", data |-> NoVal, n |-> 0]
Response(s, k, f, d) == [status |-> s, kind |-> k, from |-> f, data |-> d, n |-> 0]

Issue(c, kind, n) == [c EXCEPT ![kind] = @ + n]

\* the handler writes its response and returns
Answer(r, br1, calls1) ==
    /\ pc' = "done"
    /\ res' = [r EXCEPT !.n = res.n + 1]
    /\ br' = br1
    /\ calls' = calls1
    /\ sent' = sent

\* sendComprehensiveDiscordMessage, then the success response
PushDigest(d, br1, calls1) ==
    IF FormatThrows(d)
    THEN Answer(Response(500, "error", "format", NoVal), br1, calls1)
    ELSE IF Len(Embeds(h, d)) = 0
    THEN Answer(Response(200, "success", "none", NoVal), br1, calls1)
    ELSE /\ pc' = "sending"
         /\ sent' = Append(sent, Payload("digest", Embeds(h, d)))
         /\ calls' = Issue(calls1, "webhook", 1)
         /\ br' = br1
         /\ res' = res

\* every awaited branch has resolved: the aggregate is built and answered or pushed
Finish(br1, calls1) ==
    IF h = "news" THEN Answer(Response(200, "data", "none", br1["newsF"].val), br1, calls1)
    ELSE IF h \in DashHandlers
    THEN Answer(Response(200, "data", "none", Aggregate(h, br1)), br1, calls1)
    ELSE PushDigest(Aggregate(h, br1), br1, calls1)

\* analyzeNews returns [] for an empty text before any request is made
Summarize(content) == IF TrimEmpty(content) THEN Ok(Arr(<<>>), "none") ELSE Pending

\* the first wave has resolved: the handler starts the second
LaunchWave2(br1, calls1) ==
    IF Shape(h) = "combined"
    THEN /\ pc' = "wave2"
         /\ br' = [b \in Branches |-> IF b \in Wave2(h) THEN Pending ELSE br1[b]]
         /\ calls' = Issue(calls1, "model", Cardinality(Wave2(h)))
         /\ UNCHANGED <<sent, res>>
    ELSE IF Shape(h) = "news"
    THEN IF TrimEmpty(br1["feedF"].val)
         THEN Answer(Response(200, "data", "none", Arr(<<>>)), br1, calls1)
         ELSE /\ pc' = "wave2"
              /\ br' = [br1 EXCEPT !["newsF"] = Pending]
              /\ calls' = Issue(calls1, "model", 1)
              /\ UNCHANGED <<sent, res>>
    ELSE LET br2 == [br1 EXCEPT !["newsF"] = Summarize(br1["feedF"].val),
                                !["newsC"] = Summarize(br1["feedC"].val)]
             n == Cardinality({b \in Wave2(h) : br2[b].st = "pending"})
         IN  IF n = 0 THEN Finish(br2, calls1)
             ELSE /\ pc' = "wave2"
                  /\ br' = br2
                  /\ calls' = Issue(calls1, "model", n)
                  /\ UNCHANGED <<sent, res>>

\* a handler whose catch block also answers for a rejection that arrives after
\* the response
SettleLate(br1, calls1) ==
    LET awaited == IF pc = "wave1" THEN Wave1(h)
                   ELSE IF pc = "wave2" THEN Wave2(h)
                   ELSE IF pc = "done" THEN Wave1(h) \cup Wave2(h) ELSE {}
        rejected == {b \in awaited : br1[b].st = "threw"}
    IN  IF rejected # {}
        THEN Answer(Response(500, "error", CHOOSE b \in rejected : TRUE, NoVal), br1, calls1)
        ELSE IF pc \in {"wave1", "wave2"} /\ \A b \in awaited : br1[b].st = "ok"
        THEN IF pc = "wave1" THEN LaunchWave2(br1, calls1) ELSE Finish(br1, calls1)
        ELSE /\ br' = br1
             /\ calls' = calls1
             /\ UNCHANGED <<pc, sent, res>>

\* what the handler does once a branch has settled: Promise.all rejects on the
\* first rejection (the catch block answers 500) and resolves when all have
Settle(br1, calls1) ==
    LET awaited == IF pc = "wave1" THEN Wave1(h)
                   ELSE IF pc = "wave2" THEN Wave2(h) ELSE {}
        rejected == {b \in awaited : br1[b].st = "threw"}
    IN  IF rejected # {}
        THEN Answer(Response(500, "error", CHOOSE b \in rejected : TRUE, NoVal), br1, calls1)
        ELSE IF awaited # {} /\ \A b \in awaited : br1[b].st = "ok"
        THEN IF pc = "wave1" THEN LaunchWave2(br1, calls1) ELSE Finish(br1, calls1)
        ELSE /\ br' = br1
             /\ calls' = calls1
             /\ UNCHANGED <<pc, sent, res>>

-----------------------------------------------------------------------------
(* The dashboard page *)

\* index.tsx pushes embeds and belongs to getDashboardData.ts; the earlier page
\* pushes one text message and belongs to the aggregators without crypto analysis
UiVersion(hh) == IF hh = "dash" THEN "embeds" ELSE "message"

\* useState<Partial<DashboardData>>({})
NoData == Data(JMissing, JMissing, JMissing, JMissing, JMissing)

\* the state before the mount effect has run. loading stands for the four flags,
\* which are only ever written together. stage: idle, posted (the request to
\* /api/sendToDiscord is in flight), forwarded (the endpoint awaits the webhook),
\* threw (handleSendToDiscord threw before its try). timers: the pending 5-second
\* timers, which fire in the order they were set. runs: the runs started so far;
\* inflight: the runs whose fetch has not been answered; shown: the run whose
\* answer was handled last; got: that answer
Mounting ==
    [loading |-> TRUE, error |-> FALSE, dashboardData |-> NoData,
     isSendingToDiscord |-> FALSE, discordStatus |-> "null",
     stage |-> "idle", posted |-> <<>>, timers |-> 0,
     runs |-> 0, inflight |-> {}, shown |-> 0, got |-> [status |-> 0, data |-> NoVal]]

\* fetchDashboardData up to its await
fetchDashboardDataStart(u) ==
    [u EXCEPT !.loading = TRUE, !.error = FALSE, !.discordStatus = "null",
              !.runs = @ + 1, !.inflight = @ \cup {u.runs + 1}]

\* response.ok
IsOk(status) == status \in 200..299

\* a fetchDashboardData whose loading flags are only reset after a success
fetchDashboardDataNoFinally(u, k, r) ==
    [u EXCEPT !.loading = ~IsOk(r.status),
              !.error = ~IsOk(r.status),
              !.dashboardData = IF IsOk(r.status) THEN r.data ELSE @,
              !.inflight = @ \ {k}, !.shown = k,
              !.got = [status |-> r.status, data |-> r.data]]

\* fetchDashboardData after its await, for the answer r to run k (status 0: the
\* fetch itself failed)
fetchDashboardDataEnd(u, k, r) ==
    [u EXCEPT !.loading = FALSE,
              !.error = ~IsOk(r.status),
              !.dashboardData = IF IsOk(r.status) THEN r.data ELSE @,
              !.inflight = @ \ {k}, !.shown = k,
              !.got = [status |-> r.status, data |-> r.data]]

\* the page after its mount effect: the first run is in flight
UiInit == fetchDashboardDataStart(Mounting)

\* a refresh button that stays enabled while a run is in flight
RefreshEnabledAlways(u) == TRUE

\* the refresh button is enabled, or the retry button of the error box is shown
RefreshEnabled(u) == ~u.loading \/ u.error

\* the push button is enabled
PushEnabled(u) == ~(u.isSendingToDiscord \/ u.loading)

\* the page exists when the aggregator was called by its fetch
HasPage == h \in DashHandlers /\ req.method = "GET"

UiTrackerFields(d) ==
    IF d.trumpTracker.t = "tracker" THEN TrackerFields(d.trumpTracker) ELSE <<>>

\* index.tsx: the embeds of the manual push
UiEmbeds(d) ==
    LET all == Section(NonEmpty(d.financialNews), "financialNews")
               \o Section(NonEmpty(d.cryptoNews), "cryptoNews")
               \o Section(NonEmpty(d.calendar), "calendar")
               \o Section(Len(UiTrackerFields(d)) > 0, "trumpTracker")
               \o (IF d.cryptoAnalysis.t = "crypto"
                   THEN CryptoSection(d.cryptoAnalysis.eth, "ETH")
                        \o CryptoSection(d.cryptoAnalysis.btc, "BTC")
                   ELSE <<>>)
    IN  Stamp([i \in 1..Len(all) |-> Embed(all[i], d)])

\* the earlier page: the sections of the text message
UiContent(d) ==
    LET all == Section(NonEmpty(d.financialNews), "financialNews")
               \o Section(NonEmpty(d.cryptoNews), "cryptoNews")
               \o Section(NonEmpty(d.calendar), "calendar")
               \o Section(d.trumpTracker.t = "tracker", "trumpTracker")
    IN  [i \in 1..Len(all) |-> Embed(all[i], d)]

\* the body handed to JSON.stringify
UiBody(hh, d) ==
    IF UiVersion(hh) = "embeds"
    THEN [kind |-> "embeds", sections |-> UiEmbeds(d)]
    ELSE [kind |-> "message", sections |-> UiContent(d)]

\* the request /api/sendToDiscord receives from the page
UiRequest(hh) ==
    [method |-> "POST", secret |-> Undefined, feedUrl |-> Undefined,
     body |-> [t |-> "obj",
               message |-> IF UiVersion(hh) = "message" THEN "content" ELSE Undefined,
               embeds |-> UiVersion(hh) = "embeds"]]

\* the page renders one asset's analysis: the error card or the analysis
renderSingleCoinAnalysis(a) == IF a.t # "obj" THEN "errorCard" ELSE "analysis"

\* what the crypto tab shows for each asset
renderCryptoAnalysis(u) ==
    IF u.loading THEN [btc |-> "loader", eth |-> "loader"]
    ELSE IF u.error \/ u.dashboardData.cryptoAnalysis.t # "crypto"
    THEN [btc |-> "none", eth |-> "none"]
    ELSE [btc |-> renderSingleCoinAnalysis(u.dashboardData.cryptoAnalysis.btc),
          eth |-> renderSingleCoinAnalysis(u.dashboardData.cryptoAnalysis.eth)]

-----------------------------------------------------------------------------
(* Initial states: one request to one handler under one configuration *)

\* configuration a handler never reads is left set
Envs(hh) ==
    {e \in [CRON_SECRET : {Undefined, "s1"}, API_KEY : {Undefined, "key"},
            DISCORD_WEBHOOK_URL : {Undefined, "hook"}] :
        /\ hh \notin PushHandlers => e.CRON_SECRET = "s1"
        /\ hh = "send" => e.API_KEY = "key"
        /\ hh \in DashHandlers \cup {"news"} => e.DISCORD_WEBHOOK_URL = "hook"}

Bodies ==
    {[t |-> "none"]} \cup
    {[t |-> "obj", message |-> m, embeds |-> e] :
        m \in {Undefined, "", "hi", "nonstring"}, e \in BOOLEAN}

\* request fields a handler never reads are left at one value
Reqs(hh) ==
    {r \in [method : {"GET", "POST", "OPTIONS"}, secret : {Undefined, "s1", "s2"},
            feedUrl : {Undefined, "rss", "reuters"}, body : Bodies] :
        /\ hh \in PushHandlers => r.method = "GET"
        /\ hh \notin PushHandlers => r.secret = Undefined
        /\ hh # "news" => r.feedUrl = Undefined
        /\ hh # "send" => r.body = [t |-> "none"]}

Init ==
    /\ h \in Handlers
    /\ env \in Envs(h)
    /\ req \in Reqs(h)
    /\ pc = "recv"
    /\ br = [b \in Branches |-> Idle]
    /\ calls = [feed |-> 0, model |-> 0, webhook |-> 0]
    /\ sent = <<>>
    /\ res = NoRes
    /\ hook = "none"
    /\ ui = UiInit

-----------------------------------------------------------------------------
(* Steps *)

\* the handler runs from its entry to its first await
Receive ==
    /\ pc = "recv"
    /\ LET g == Gate(h, req, env)
       IN  IF g.t = "respond"
           THEN Answer(Response(g.status, g.kind, "gate", NoVal), br, calls)
           ELSE IF h = "send"
           THEN /\ pc' = "sending"
                /\ sent' = Append(sent, Payload(req.body.message, <<>>))
                /\ calls' = Issue(calls, "webhook", 1)
                /\ UNCHANGED <<br, res>>
           ELSE /\ pc' = "wave1"
                /\ br' = [b \in Branches |-> IF b \in Wave1(h) THEN Pending ELSE Idle]
                /\ calls' = Issue(Issue(calls, "feed", Cardinality(Wave1(h) \cap FeedBranches)),
                                  "model", Cardinality(Wave1(h) \cap ModelBranches))
                /\ UNCHANGED <<sent, res>>
    /\ UNCHANGED <<h, env, req, hook, ui>>

\* the relay answers a feed request
FeedReply(b) ==
    /\ br[b].st = "pending"
    /\ \E o \in FeedOutcomes : Settle([br EXCEPT ![b] = FeedResult(h, req, o)], calls)
    /\ UNCHANGED <<h, env, req, hook, ui>>

\* the language model answers a request
ModelReply(b) ==
    /\ br[b].st \in {"pending", "pending2"}
    /\ \E o \in ModelOutcomes(b) :
        \E r \in ModelResult(h, b, br[b], o) :
            Settle([br EXCEPT ![b] = r],
                   IF r.st = "pending2" THEN Issue(calls, "model", 1) ELSE calls)
    /\ UNCHANGED <<h, env, req, hook, ui>>

WebhookOutcomes == {"ok", "rejected", "bad_error_body", "network"}

\* a caller that takes any answer of the webhook for success
WebhookResponseSwallowed(hh, o) == Response(200, "success", "none", NoVal)

\* what the caller of the webhook answers: the manual send passes the webhook's
\* status on, the scheduled push throws into the handler's catch block
WebhookResponse(hh, o) ==
    IF o = "ok" THEN Response(200, "success", "none", NoVal)
    ELSE IF o = "rejected" /\ hh = "send" THEN Response(429, "error", "webhook", NoVal)
    ELSE Response(500, "error", "webhook", NoVal)

\* the webhook answers the POST
WebhookReply ==
    /\ pc = "sending"
    /\ \E o \in WebhookOutcomes :
        /\ hook' = o
        /\ Answer(WebhookResponse(h, o), br, calls)
    /\ UNCHANGED <<h, env, req, ui>>

-----------------------------------------------------------------------------
(* The steps of the dashboard page *)

\* fetchDashboardData after the aggregator's response
UiLoad ==
    /\ HasPage /\ pc = "done"
    /\ \E k \in ui.inflight : ui' = fetchDashboardDataEnd(ui, k, res)
    /\ UNCHANGED <<h, env, req, pc, br, calls, sent, res, hook>>

\* handleSendToDiscord up to its await
handleSendToDiscord(hh, u) ==
    IF u.isSendingToDiscord THEN u
    ELSE IF FormatThrows(u.dashboardData)
    THEN [u EXCEPT !.isSendingToDiscord = TRUE, !.discordStatus = "null",
                   !.stage = "threw"]
    ELSE [u EXCEPT !.isSendingToDiscord = TRUE, !.discordStatus = "null",
                   !.stage = "posted",
                   !.posted = Append(@, UiBody(hh, u.dashboardData))]

\* the user clicks the push button
UiPush ==
    /\ HasPage /\ PushEnabled(ui)
    /\ Len(ui.posted) < MaxPushes
    /\ ui' = handleSendToDiscord(h, ui)
    /\ UNCHANGED <<h, env, req, pc, br, calls, sent, res, hook>>

\* handleSendToDiscord after its await: the status, the flag, the timer
UiDone(status) ==
    ui' = [ui EXCEPT !.discordStatus = IF IsOk(status) THEN "success" ELSE "error",
                     !.isSendingToDiscord = FALSE,
                     !.stage = "idle",
                     !.timers = @ + 1]

\* /api/sendToDiscord handles the page's request up to its await, or the fetch fails
UiEndpoint ==
    /\ ui.stage = "posted"
    /\ \E reached \in BOOLEAN :
        LET g == Gate("send", UiRequest(h), env)
        IN  IF ~reached THEN UiDone(0) /\ sent' = sent
            ELSE IF g.t = "respond" THEN UiDone(g.status) /\ sent' = sent
            ELSE /\ ui' = [ui EXCEPT !.stage = "forwarded"]
                 /\ sent' = Append(sent, Payload(UiRequest(h).body.message, <<>>))
    /\ UNCHANGED <<h, env, req, pc, br, calls, res, hook>>

\* the webhook answers the endpoint, the endpoint answers the page
UiWebhookReply ==
    /\ ui.stage = "forwarded"
    /\ \E o \in WebhookOutcomes :
        /\ hook' = o
        /\ UiDone(WebhookResponse("send", o).status)
    /\ UNCHANGED <<h, env, req, pc, br, calls, sent, res>>

\* setTimeout(() => setDiscordStatus(null), 5000)
UiTimer ==
    /\ ui.timers > 0
    /\ ui' = [ui EXCEPT !.discordStatus = "null", !.timers = @ - 1]
    /\ UNCHANGED <<h, env, req, pc, br, calls, sent, res, hook>>

Next ==
    \/ Receive
    \/ \E b \in FeedBranches : FeedReply(b)
    \/ \E b \in ModelBranches : ModelReply(b)
    \/ WebhookReply
    \/ UiLoad
    \/ UiPush
    \/ UiEndpoint
    \/ UiWebhookReply
    \/ UiTimer

Spec == Init /\ [][Next]_vars

-----------------------------------------------------------------------------
(* The page on its own: the aggregator is whatever answers its fetch, and the
   user may refresh *)

Analysis == [t |-> "obj", marketStructure |-> "ms", bullishScenario |-> "bs"]

\* two aggregates the endpoint behind the page can answer with: every data group
\* filled (the first aggregator of sendToDiscord.ts leaves the calendar as the
\* model ordered it), and every data group empty
PageData(hh) ==
    {Data(Arr(<<"a1">>), Arr(<<"a1">>),
          IF hh = "dashA" THEN Arr(<<Late, Early>>) ELSE Arr(<<Early, Late>>),
          Tracker(Arr(<<"s1">>), Post("p", "u")),
          IF hh = "dash" THEN CryptoPair(Analysis, Analysis) ELSE JMissing),
     Data(Arr(<<>>), Arr(<<>>), Arr(<<>>), EmptyTracker,
          IF hh = "dash" THEN CryptoPair(ErrorVal("msg"), ErrorVal("msg")) ELSE JMissing)}

\* what fetch('/api/getDashboardData') can yield: the data, the handler's error
\* response, or no response at all
PageResponses(hh) ==
    {Response(200, "data", "none", d) : d \in PageData(hh)}
    \cup {Response(500, "error", "none", NoVal), Response(0, "network", "none", NoVal)}

PageInit ==
    /\ h \in DashHandlers
    /\ env = [CRON_SECRET |-> "s1", API_KEY |-> "key", DISCORD_WEBHOOK_URL |-> "hook"]
    /\ req = [method |-> "GET", secret |-> Undefined, feedUrl |-> Undefined,
              body |-> [t |-> "none"]]
    /\ pc = "page"
    /\ br = [b \in Branches |-> Idle]
    /\ calls = [feed |-> 0, model |-> 0, webhook |-> 0]
    /\ sent = <<>>
    /\ res = NoRes
    /\ hook = "none"
    /\ ui = UiInit

\* the user clicks refresh or retry: the effect runs fetchDashboardData
PageRefresh ==
    /\ RefreshEnabled(ui)
    /\ ui.runs < MaxRuns
    /\ ui' = fetchDashboardDataStart(ui)
    /\ UNCHANGED <<h, env, req, pc, br, calls, sent, res, hook>>

\* the fetch of a run is answered
PageFetchReply ==
    /\ \E k \in ui.inflight : \E r \in PageResponses(h) :
        ui' = fetchDashboardDataEnd(ui, k, r)
    /\ UNCHANGED <<h, env, req, pc, br, calls, sent, res, hook>>

\* the user clicks the push button
PagePush ==
    /\ PushEnabled(ui)
    /\ Len(ui.posted) < MaxPagePushes
    /\ ui' = handleSendToDiscord(h, ui)
    /\ UNCHANGED <<h, env, req, pc, br, calls, sent, res, hook>>

PageNext ==
    \/ PageRefresh
    \/ PageFetchReply
    \/ PagePush
    \/ UiEndpoint
    \/ UiWebhookReply
    \/ UiTimer

PageSpec == PageInit /\ [][PageNext]_vars

-----------------------------------------------------------------------------
(* Properties *)

NoCalls == calls.feed = 0 /\ calls.model = 0 /\ calls.webhook = 0

\* C1: a scheduled-push request whose secret header differs from the configured
\* secret is answered 401 by the handler's first step, and no feed, model or
\* webhook request is ever issued for it.
C1_WrongSecretRejected ==
    (h \in PushHandlers /\ req.secret # env.CRON_SECRET) =>
        /\ NoCalls
        /\ pc \in {"recv", "done"}
        /\ pc = "done" => res.status = 401 /\ res.kind = "unauthorized"

C1_Witness ==
    /\ h \in PushHandlers
    /\ req.secret = "s2" /\ env.CRON_SECRET = "s1"
    /\ env.API_KEY = "key" /\ env.DISCORD_WEBHOOK_URL = "hook"
    /\ pc = "done" /\ res.status = 401

\* C2: with CRON_SECRET absent, every scheduled-push request, with or without a
\* secret header, is answered with the configuration error (never the 401 of an
\* auth rejection) and starts no feed, model or webhook request.
C2_MissingSecretIsConfigError ==
    (h \in PushHandlers /\ env.CRON_SECRET = Undefined) =>
        /\ NoCalls
        /\ pc \in {"recv", "done"}
        /\ pc = "done" => res.status = 500 /\ res.kind = "config"

\* the request gets as far as the handler's configuration check
ReachesConfigCheck ==
    CASE h \in PushHandlers -> req.secret = env.CRON_SECRET
      [] h \in DashHandlers -> req.method # "OPTIONS"
      [] h = "news" -> req.method # "OPTIONS" /\ req.feedUrl # Undefined
      [] OTHER -> req.method = "POST"

\* configuration the endpoint needs is absent
NeededConfigAbsent ==
    CASE h \in PushHandlers ->
            env.API_KEY = Undefined \/ env.DISCORD_WEBHOOK_URL = Undefined
      [] h = "send" -> env.DISCORD_WEBHOOK_URL = Undefined
      [] OTHER -> env.API_KEY = Undefined

\* C3: on every endpoint, when the model credential or the webhook URL the endpoint
\* needs is absent, no feed, model or webhook request is ever issued, and a request
\* that reaches the configuration check (not a preflight, a wrong method or a
\* missing feedUrl; the right secret on the scheduled push) is answered at once
\* with the 500 configuration error.
C3_MissingConfigIsImmediateError ==
    NeededConfigAbsent =>
        /\ NoCalls
        /\ pc \in {"recv", "done"}
        /\ (pc = "done" /\ ReachesConfigCheck) => res.status = 500 /\ res.kind = "config"

C3_Witness ==
    /\ h \in PushHandlers
    /\ req.secret = "s1" /\ env.CRON_SECRET = "s1"
    /\ env.API_KEY = "key" /\ env.DISCORD_WEBHOOK_URL = Undefined
    /\ pc = "done" /\ res.status = 500 /\ res.kind = "config"

\* C4: in the dashboard aggregator, a failed BTC analysis (request rejected, text
\* that does not parse, required fields missing) is never what fails the call: the
\* BTC branch resolves to an error-flagged value, the call succeeds as soon as the
\* other branches have resolved, and the success response carries the news,
\* calendar and tracker of their own branches, ETH's own result and btc.error true.
C4_BtcFailureContained ==
    (h = "dash" /\ br["btc"].cause = "failed") =>
        /\ br["btc"].st = "ok"
        /\ br["btc"].val.t = "error" /\ br["btc"].val.error = TRUE
        /\ res.from # "btc"
        /\ (\A b \in {"nc", "trk", "eth"} : br[b].st = "ok") =>
                pc = "done" /\ res.status = 200 /\ res.kind = "data"
        /\ (pc = "done" /\ res.kind = "data") =>
                /\ res.data.cryptoAnalysis.btc.t = "error"
                /\ res.data.cryptoAnalysis.btc.error = TRUE
                /\ res.data.cryptoAnalysis.eth = br["eth"].val
                /\ res.data.financialNews = br["nc"].val.financialNews
                /\ res.data.cryptoNews = br["nc"].val.cryptoNews
                /\ res.data.calendar = br["nc"].val.calendar
                /\ res.data.trumpTracker = br["trk"].val

C4_Witness ==
    /\ h = "dash" /\ pc = "done"
    /\ br["btc"].cause = "failed"
    /\ res.status = 200 /\ res.kind = "data"
    /\ res.data.financialNews = Arr(<<"a1">>)
    /\ res.data.calendar = Arr(<<Early, Late>>)
    /\ res.data.trumpTracker = Tracker(Arr(<<"s1">>), Post("p", "u"))
    /\ res.data.cryptoAnalysis.eth.t = "obj"

\* C5: whatever the model answers to the figure tracker's request(s), the tracker
\* never throws into the aggregator: its branch is never rejected, no error
\* response stems from it, and its value is {schedule, topPost} with a list and a
\* post, both in their empty form when the request failed.
C5_TrackerNeverPropagates ==
    /\ br["trk"].st # "threw"
    /\ res.from # "trk"
    /\ br["trk"].st = "ok" =>
        /\ br["trk"].val.t = "tracker"
        /\ br["trk"].val.schedule.t = "arr"
        /\ br["trk"].val.topPost.t = "post"

\* the articles a summarization branch yields for a feed
ArticlesOf(b, feed) ==
    IF b = "nc"
    THEN (IF feed = "feedF" THEN br[b].val.financialNews ELSE br[b].val.cryptoNews)
    ELSE br[b].val

\* C6: a news-summarization answer that is empty or does not parse never fails the
\* aggregate call: the branch is not rejected, no error response stems from it,
\* and the affected source has zero articles.
C6_NewsDecodeFailureContained ==
    h \in DashHandlers \cup PushHandlers =>
        \A b \in {"newsF", "newsC", "nc"} :
            br[b].cause = "decode" =>
                /\ br[b].st = "ok"
                /\ res.from # b
                /\ \A f \in FeedBranches :
                    (b = "nc" \/ (b = "newsF") = (f = "feedF")) =>
                        ArticlesOf(b, f) = Arr(<<>>)

\* the calendar a branch yields
CalendarOf(b) == IF b = "nc" THEN br[b].val.calendar ELSE br[b].val

\* C7: an exception while obtaining the calendar (request rejected, or an answer
\* that does not decode) stays inside the calendar component: the branch carrying
\* the calendar is never rejected, no error response stems from it, and the
\* calendar is then the empty list.
C7_CalendarFailureContained ==
    \A b \in {"cal", "nc"} :
        /\ br[b].st # "threw"
        /\ res.from # b
        /\ (br[b].st = "ok" /\ br[b].cause # "none") => CalendarOf(b) = Arr(<<>>)

\* the order of the time strings
TimeRank(tm) ==
    CASE tm = "" -> 0
      [] tm = "09:00" -> 1
      [] tm = "14:30" -> 2
      [] OTHER -> 3

\* (date, time) of a is not after (date, time) of b
DateTimeLeq(a, b) ==
    a.date < b.date \/ (a.date = b.date /\ TimeRank(a.time) <= TimeRank(b.time))

\* C8: whatever the model answers, a calendar list placed in the aggregate holds
\* only High events and is sorted non-decreasing by (date, time).
C8_CalendarHighAndSorted ==
    \A b \in {"cal", "nc"} :
        (br[b].st = "ok" /\ CalendarOf(b).t = "arr") =>
            LET c == CalendarOf(b).items
            IN  /\ \A i \in 1..Len(c) : c[i].importance = "High"
                /\ \A i, j \in 1..Len(c) : i < j => DateTimeLeq(c[i], c[j])

\* C9: the crypto analyst's value is an analysis with marketStructure and
\* bullishScenario, or {error: true, message} with a non-empty message.
C9_AnalysisOrError ==
    \A b \in {"eth", "btc"} :
        br[b].st = "ok" =>
            IF br[b].val.t = "obj"
            THEN ~Falsy(br[b].val.marketStructure) /\ ~Falsy(br[b].val.bullishScenario)
            ELSE /\ br[b].val.t = "error"
                 /\ br[b].val.error = TRUE
                 /\ br[b].val.message # ""

\* the branch that summarizes a feed
SummaryOf(f) ==
    IF Shape(h) = "combined" THEN "nc" ELSE IF f = "feedF" THEN "newsF" ELSE "newsC"

BothFeedsEmpty ==
    \A f \in FeedBranches : br[f].st = "ok" /\ TrimEmpty(br[f].val)

\* C10: a feed whose raw text is empty gets [] from the summarizer and no model
\* request of its own, and when both feeds are empty no summarization request is
\* made at all.
C10_EmptyFeedNotSummarized ==
    h \in DashHandlers \cup PushHandlers =>
        /\ \A f \in FeedBranches :
            (br[f].st = "ok" /\ TrimEmpty(br[f].val)) =>
                /\ Shape(h) = "split" => br[SummaryOf(f)].st \in {"idle", "ok"}
                /\ br[SummaryOf(f)].st = "ok" => ArticlesOf(SummaryOf(f), f) = Arr(<<>>)
        /\ BothFeedsEmpty => \A f \in FeedBranches : br[SummaryOf(f)].st \in {"idle", "ok"}

\* C11: a feed whose relay response was fetched but carries no parseable items
\* (relay status other than ok, no item list, a JSON-API body without an article
\* list) never makes the source fetcher fail: a feed branch is rejected only by a
\* non-success HTTP status or a body that is not JSON.
C11_NoItemsIsEmptyNotError ==
    \A b \in FeedBranches :
        br[b].st = "threw" => br[b].cause \in {"http", "body"}

\* C12: when the relay answers a feed request of an aggregator with a non-success
\* HTTP status, each feed has been requested exactly once, the call is answered
\* with the single 500 error response without data, nothing is posted to the
\* webhook, and the page that called shows the error and holds no data.
C12_FeedHttpErrorPropagates ==
    (h \in DashHandlers \cup PushHandlers /\ \E b \in FeedBranches : br[b].cause = "http") =>
        /\ calls.feed = 2
        /\ pc = "done"
        /\ res.status = 500 /\ res.kind = "error" /\ res.data = NoVal
        /\ res.from \in Wave1(h)
        /\ calls.webhook = 0
        /\ (HasPage /\ ~ui.loading) => ui.error /\ ui.dashboardData = NoData

C12_Witness ==
    /\ h = "dash" /\ pc = "done"
    /\ br["feedF"].st = "ok" /\ br["feedC"].cause = "http"
    /\ res.status = 500 /\ res.from = "feedC"
    /\ ~ui.loading /\ ui.error

\* C13: a POST to the manual send endpoint with a configured webhook and a body
\* of either shape, {message: string} or {embeds: [...]}, is forwarded to the
\* webhook and answered 200 success when the webhook accepts it.
C13_BothBodyShapesForwarded ==
    (/\ h = "send" /\ req.method = "POST" /\ env.DISCORD_WEBHOOK_URL # Undefined
     /\ req.body.t = "obj"
     /\ \/ req.body.message = "hi" /\ ~req.body.embeds
        \/ req.body.message = Undefined /\ req.body.embeds) =>
        /\ pc # "recv" => Len(sent) = 1
        /\ pc = "done" => hook # "none"
        /\ (pc = "done" /\ hook = "ok") => res.status = 200 /\ res.kind = "success"

\* C14: a webhook answer other than success is never reported as success: the
\* manual send endpoint and the scheduled push answer with a non-2xx error
\* response, the page's discordStatus is not 'success', and discordStatus is
\* 'success' only when the webhook accepted the payload.
C14_WebhookFailureNeverSuccess ==
    /\ (h \in PushHandlers \cup {"send"} /\ pc = "done" /\ hook \notin {"none", "ok"}) =>
            ~IsOk(res.status) /\ res.kind = "error"
    /\ (h \in PushHandlers \cup {"send"} /\ res.kind = "success" /\ Len(sent) > 0) =>
            hook = "ok"
    /\ (HasPage /\ hook \notin {"none", "ok"}) => ui.discordStatus # "success"
    /\ (HasPage /\ hook \notin {"none", "ok"} /\ ui.stage = "idle" /\ ui.timers = Len(ui.posted)) =>
            ui.discordStatus = "error"
    /\ ui.discordStatus = "success" => hook = "ok"

C14_Witness ==
    /\ HasPage /\ hook = "rejected"
    /\ Len(sent) = 1
    /\ ui.stage = "idle" /\ ~ui.isSendingToDiscord
    /\ ui.discordStatus = "error"

\* C15: every payload posted to the webhook by the scheduled push and every embed
\* body the page posts holds at most 10 embeds.
C15_AtMostTenEmbeds ==
    /\ \A i \in 1..Len(sent) : Len(sent[i].embeds) <= 10
    /\ \A i \in 1..Len(ui.posted) :
        ui.posted[i].kind = "embeds" => Len(ui.posted[i].sections) <= 10

C15_Witness ==
    /\ h = "push2" /\ Len(sent) = 1
    /\ Len(sent[1].embeds) = 6

\* the place of a section in the digest
Rank(name) ==
    CASE name = "financialNews" -> 1
      [] name = "cryptoNews" -> 2
      [] name = "calendar" -> 3
      [] name = "trumpTracker" -> 4
      [] name = "BTC" -> 5
      [] OTHER -> 6

InOrder(e) == \A i, j \in 1..Len(e) : i < j => Rank(e[i].section) < Rank(e[j].section)

\* C16: in every digest, of the scheduled push and of the page, the sections
\* appear in the order financial news, crypto news, calendar, figure tracker,
\* BTC analysis, ETH analysis.
C16_SectionOrder ==
    /\ \A i \in 1..Len(sent) : InOrder(sent[i].embeds)
    /\ \A i \in 1..Len(ui.posted) : InOrder(ui.posted[i].sections)

FooterOnLast(e) == \A i \in 1..Len(e) : e[i].footer = (i = Len(e))

\* C17: in every non-empty embed digest, of the scheduled push and of the page,
\* the footer and timestamp are on exactly one embed, the last of the payload.
C17_FooterOnLastSection ==
    /\ \A i \in 1..Len(sent) : FooterOnLast(sent[i].embeds)
    /\ \A i \in 1..Len(ui.posted) :
        ui.posted[i].kind = "embeds" => FooterOnLast(ui.posted[i].sections)

C17_Witness ==
    /\ h \in PushHandlers /\ Len(sent) = 1
    /\ Len(sent[1].embeds) >= 2
    /\ sent[1].embeds[Len(sent[1].embeds)].footer
    /\ ~sent[1].embeds[1].footer

Has(e, name) == \E i \in 1..Len(e) : e[i].section = name

HasField(e, name) == \E i \in 1..Len(e) : \E k \in 1..Len(e[i].fields) : e[i].fields[k] = name

TrackerShown(d) ==
    /\ d.trumpTracker.t = "tracker"
    /\ NonEmpty(d.trumpTracker.schedule) \/ ~Falsy(d.trumpTracker.topPost.postContent)

\* the digest e shows exactly the non-empty groups of the aggregate d
ShowsNonEmptyGroups(e, d) ==
    /\ Has(e, "financialNews") <=> NonEmpty(d.financialNews)
    /\ Has(e, "cryptoNews") <=> NonEmpty(d.cryptoNews)
    /\ Has(e, "calendar") <=> NonEmpty(d.calendar)
    /\ Has(e, "trumpTracker") <=> TrackerShown(d)
    /\ HasField(e, "truthSocial") <=>
        (d.trumpTracker.t = "tracker" /\ ~Falsy(d.trumpTracker.topPost.postContent))
    /\ HasField(e, "schedule") <=>
        (d.trumpTracker.t = "tracker" /\ NonEmpty(d.trumpTracker.schedule))

\* C18: every digest, of the scheduled push and of the page, has a section for a
\* data group exactly when the group is non-empty: no crypto-news section for an
\* empty cryptoNews, no Truth Social entry for an empty postContent, and no
\* figure-tracker section when schedule and postContent are both empty.
C18_SectionsOnlyForNonEmptyGroups ==
    /\ (h \in PushHandlers /\ Len(sent) = 1) =>
            ShowsNonEmptyGroups(sent[1].embeds, Aggregate(h, br))
    /\ \A i \in 1..Len(ui.posted) :
            ShowsNonEmptyGroups(ui.posted[i].sections, ui.dashboardData)

Ticker(b) == IF b = "btc" THEN "BTC" ELSE "ETH"

\* C19: an analysis with error set never fails the aggregator or the push, reaches
\* the page and the digest as the analyst returned it, gets no analysis section in
\* any digest, and is shown by the page as that asset's error card next to the
\* other asset's analysis.
C19_ErrorAnalysisFlows ==
    \A b \in {"eth", "btc"} :
        /\ br[b].st # "threw" /\ res.from # b
        /\ (h = "push2" /\ Len(sent) = 1 /\ br[b].val.t = "error") =>
                ~Has(sent[1].embeds, Ticker(b))
        /\ (h = "dash" /\ pc = "done" /\ res.kind = "data") =>
                res.data.cryptoAnalysis[b] = br[b].val
        /\ (h = "dash" /\ HasPage /\ ~ui.loading /\ ~ui.error) =>
                /\ ui.dashboardData.cryptoAnalysis[b] = br[b].val
                /\ br[b].val.t = "error" =>
                        /\ renderCryptoAnalysis(ui)[b] = "errorCard"
                        /\ \A i \in 1..Len(ui.posted) :
                                ~Has(ui.posted[i].sections, Ticker(b))
                /\ br[b].val.t = "obj" => renderCryptoAnalysis(ui)[b] = "analysis"

C19_Witness ==
    /\ h = "dash" /\ HasPage /\ ~ui.loading /\ ~ui.error
    /\ br["btc"].val.t = "error" /\ br["eth"].val.t = "obj"
    /\ renderCryptoAnalysis(ui) = [btc |-> "errorCard", eth |-> "analysis"]
    /\ Len(ui.posted) = 1
    /\ Has(ui.posted[1].sections, "ETH")

\* C20: while an aggregator awaits its feed fetches, the calendar, figure-tracker
\* and crypto-analysis requests it makes in the run have already been issued.
C20_BranchesLaunchedTogether ==
    (h \in DashHandlers \cup PushHandlers /\ pc = "wave1") =>
        \A b \in (Wave1(h) \cup Wave2(h)) \cap {"cal", "trk", "eth", "btc"} :
            br[b].st # "idle"

\* C21: the request that summarizes a feed is issued only once that feed's own
\* fetch has resolved: while a feed is being fetched or after its fetch failed,
\* its summary has not been started. The summaries of the two feeds may be in
\* flight at the same time.
C21_SummaryAfterOwnFetch ==
    \A f \in FeedBranches :
        br[SummaryOf(f)].st # "idle" => br[f].st = "ok"

C21_Witness ==
    /\ Shape(h) = "split"
    /\ br["feedF"].st = "ok" /\ br["feedC"].st = "ok"
    /\ br["newsF"].st = "pending" /\ br["newsC"].st = "pending"
    /\ calls.model = 4

\* C22: a run of the page goes from fetching to exactly one of rendered and
\* error-shown. While a run is in flight the loading flags are set and the refresh,
\* retry and push controls cannot be used. Once the run is answered (data, an
\* error response, or no response) the loading flags are clear and either the
\* data is the answer's and error is null, or error is set; a new run can then
\* be started.
C22_RunLifecycle ==
    /\ ui.inflight # {} =>
        ui.loading /\ ~ui.error /\ ~RefreshEnabled(ui) /\ ~PushEnabled(ui)
    /\ ui.inflight = {} =>
        /\ ~ui.loading
        /\ IF IsOk(ui.got.status)
           THEN ~ui.error /\ ui.dashboardData = ui.got.data
           ELSE ui.error
        /\ RefreshEnabled(ui)

C22_Witness ==
    /\ ui.runs = 2 /\ ui.inflight = {2}
    /\ ui.shown = 1 /\ ui.got.status = 0
    /\ ui.loading

\* C23: every run starts fresh: when the last run ended in error-shown, the page's
\* state holds no aggregate of an earlier run, so a push made then has nothing
\* of an earlier run to send.
C23_FailedRunHoldsNoEarlierData ==
    (ui.inflight = {} /\ ui.error) =>
        /\ ui.dashboardData = NoData
        /\ Len(handleSendToDiscord(h, ui).posted) > Len(ui.posted) =>
            Len(handleSendToDiscord(h, ui).posted[Len(ui.posted) + 1].sections) = 0

\* C24: once every started run of the page has been answered, the data or error
\* the page holds is of the run that was started last: no answer to an earlier
\* run is handled after the answer to a later one.
C24_NewestRunWins ==
    ui.inflight = {} => ui.shown = ui.runs

C24_Witness ==
    /\ ui.runs = 2 /\ ui.inflight = {}
    /\ ui.shown = 2
    /\ IsOk(ui.got.status) /\ ui.dashboardData = ui.got.data

\* C25: the calendar a calendar component returns, and so the calendar placed in
\* the aggregate, is a list whatever JSON value the model answered and on every
\* failure path.
C25_CalendarIsAlwaysAList ==
    \A b \in {"cal", "nc"} :
        br[b].st = "ok" => CalendarOf(b).t = "arr"

\* C26: whenever the scheduled push answers 200 success, this invocation made
\* exactly one POST of a digest to the webhook and the webhook accepted it: a run
\* that sent nothing is never reported as a completed push.
C26_SuccessMeansOneAcceptedPost ==
    (h \in PushHandlers /\ res.status = 200 /\ res.kind = "success") =>
        /\ calls.webhook = 1 /\ Len(sent) = 1
        /\ Len(sent[1].embeds) > 0
        /\ hook = "ok"

\* C27: every invocation of every endpoint handler that has returned wrote exactly
\* one HTTP response, on the early returns, on the success path and in the catch
\* block; before it returns it has written none, and answers that arrive after
\* the response write no second one.
C27_ExactlyOneResponse ==
    IF pc = "done" THEN res.n = 1 /\ res.status # 0 ELSE res.n = 0 /\ res = NoRes

C27_Witness ==
    /\ h \in DashHandlers /\ pc = "done"
    /\ br["feedF"].st = "threw" /\ br["feedC"].st = "threw"
    /\ res.n = 1 /\ res.status = 500

\* C28: at most one manual push is in flight: isSendingToDiscord is set exactly
\* while a push request awaits its answer, the push control cannot be used
\* meanwhile, and so the flag is always cleared again when the answer (or the
\* network error) arrives: pushing never stays disabled for good.
C28_PushNeverStuck ==
    /\ ui.isSendingToDiscord <=> ui.stage \in {"posted", "forwarded"}
    /\ ui.isSendingToDiscord => ~PushEnabled(ui)
    /\ ui.isSendingToDiscord => handleSendToDiscord(h, ui) = ui

\* C29: the status a push has set is cleared only by that push's own 5-second
\* timer or by the start of a new fetch or push: a timer that fires while a status
\* is shown is the only pending timer, that of the push that set the status, and
\* never the timer of an earlier push.
C29_TimerClearsOwnStatusOnly ==
    [][(ui'.timers < ui.timers /\ ui.discordStatus # "null") => ui.timers = 1]_vars

\* C30: a manual push never posts an empty digest: every request the page sends
\* to the send endpoint carries at least one section, also when the page holds
\* no data or only empty and error-flagged groups.
C30_NoEmptyDigestPosted ==
    \A i \in 1..Len(ui.posted) : Len(ui.posted[i].sections) > 0

====
